---- MODULE Spec2Model ----
(***************************************************************************)
(* Model of the image-clone-controller: the event handlers, the run loop,  *)
(* the worker's reconcile pass (processNext / checkAndUpdateImage) and the *)
(* mirroring helpers (retagImage / imageAlreadyPresentInRepo /             *)
(* processImage) of pkg/controller.                                        *)
(*                                                                         *)
(* Strings are sequences of one-character strings, so that strings.Split,  *)
(* strings.Contains and strings.HasPrefix are computed.  In a work-queue   *)
(* key the kind, the namespace and the name are single symbols (none of    *)
(* them can contain "/") joined by "/" symbols.                            *)
(***************************************************************************)
EXTENDS Integers, Sequences, FiniteSets, TLC

\* ------------------------------------------------------------------ bounds
MaxContainers == 2     \* containers per workload
MaxReplicas == 1       \* desired / ready counts range over 0..MaxReplicas
MaxEnvOps == 1         \* status changes and deletions made by the cluster's users

\* ----------------------------------------------------------- string helpers
\* CHOOSE r \in {F(x) : x \in {e}} : TRUE, here and below, is F(e) with the
\* argument e evaluated once, as a call of the program evaluates it

Contains(s, c) == \E i \in 1..Len(s) : s[i] = c

IndexOf(s, c) == CHOOSE i \in 1..Len(s) : s[i] = c /\ \A j \in 1..(i-1) : s[j] # c

RECURSIVE Split(_, _)
Split(s, sep) ==
    IF ~Contains(s, sep) THEN <<s>>
    ELSE LET i == IndexOf(s, sep)
         IN  <<SubSeq(s, 1, i-1)>> \o
                 (CHOOSE r \in {Split(rest, sep) : rest \in {SubSeq(s, i+1, Len(s))}} : TRUE)

HasPrefix(s, p) == Len(p) <= Len(s) /\ SubSeq(s, 1, Len(p)) = p

\* -------------------------------------------------------------- the domain
Kinds == {"deployment", "daemonset"}
Namespaces == {"default", "kube-system"}
Names == {"app"}

\* MetaNamespaceKeyFunc of a namespaced object: namespace + "/" + name
MetaNamespaceKey(ns, name) == <<ns, "/", name>>

KeyOf(kind, ns, name) == <<kind, "/">> \o MetaNamespaceKey(ns, name)

Keys == {KeyOf(kd, ns, nm) : kd \in Kinds, ns \in Namespaces, nm \in Names}

\* the sets of workloads the cluster starts with
Clusters == {S \in SUBSET Keys : Cardinality(S) = 1}

\* image references of the cluster's containers:
\*   m/a:1  two segments with a tag        a      one segment, no tag
\*   b/a:1  already in the backup registry
Images == { <<"m", "/", "a", ":", "1">>, <<"a">>, <<"b", "/", "a", ":", "1">> }

\* values of the REPOSITORY environment variable
Repositories == { <<"b">> }

DefaultTag == <<"l", "a", "t", "e", "s", "t">>

ContainerNames == <<"c1", "c2", "c3", "c4">>

ImageLists == UNION {[1..n -> Images] : n \in 1..MaxContainers}

Containers(imgs) == [i \in 1..Len(imgs) |-> [name |-> ContainerNames[i], image |-> imgs[i]]]

Counts == 0..MaxReplicas

\* <<desired, ready>> of a workload's status: the ready pods are among the desired ones
Statuses == {st \in Counts \X Counts : st[2] <= st[1]}

NoObj == [exists |-> FALSE, desired |-> 0, ready |-> 0, containers |-> <<>>]

Obj(d, r, imgs) == [exists |-> TRUE, desired |-> d, ready |-> r, containers |-> Containers(imgs)]

VARIABLES
    repository,   \* REPOSITORY, read once at package initialisation
    api,          \* the API server's stored workloads, by key
    cache,        \* the informers' stores (what the listers return), by key
    fresh,        \* fresh[k]: the cached object has the stored object's resourceVersion
    pending,      \* add/update notifications not yet delivered to the handlers
    synced,       \* synced[kind]: the kind's informer reports HasSynced
    workqueue,    \* the rate limiting work queue
    registry,     \* the backup registry: set of <<repository, tag>>
    stopCh,       \* TRUE once the stop channel is closed
    runPc,        \* position of run()
    workerPc,     \* position of the worker goroutine
    item,         \* the item the worker got from the queue
    last,         \* what the reconcile pass of the step just taken did (NoPass after any other step)
    mirrored,     \* source images for which processImage has returned successfully
    envOps        \* number of user operations so far

vars == <<repository, api, cache, fresh, pending, synced, workqueue,
          registry, stopCh, runPc, workerPc, item, last, mirrored, envOps>>

\* ------------------------------------------------- pkg/controller: mirroring
\* retagImage: <<imageName, tag, newImage>> as a record
retagImage_firstSegment(name) ==
    LET image == Split(name, "/")
        imageNameWithTag == image[1]
        hasTag == Contains(imageNameWithTag, ":")
        list == Split(imageNameWithTag, ":")
        bare == IF hasTag THEN list[1] ELSE imageNameWithTag
        tag == IF hasTag THEN list[2] ELSE <<>>
        imageName == repository \o <<"/">> \o bare
    IN  [imageName |-> imageName,
         tag |-> tag,
         newImage |-> IF Len(tag) > 0 THEN imageName \o <<":">> \o tag ELSE imageName]

retagImage(name) ==
    LET image == Split(name, "/")
        imageNameWithTag == IF Len(image) = 2 THEN image[2] ELSE image[1]
        hasTag == Contains(imageNameWithTag, ":")
        list == Split(imageNameWithTag, ":")
        bare == IF hasTag THEN list[1] ELSE imageNameWithTag
        tag == IF hasTag THEN list[2] ELSE <<>>
        imageName == repository \o <<"/">> \o bare
    IN  [imageName |-> imageName,
         tag |-> tag,
         newImage |-> IF Len(tag) > 0 THEN imageName \o <<":">> \o tag ELSE imageName]

\* remote.List(rep): the tags of a repository of the backup registry; the
\* error of remote.List is dropped by the caller, which then sees no tag
ListTags(reg, rep, listOk) == IF listOk THEN {e[2] : e \in {x \in reg : x[1] = rep}} ELSE {}

imageAlreadyPresentInRepo(reg, rep, tag, listOk) == tag \in ListTags(reg, rep, listOk)

\* getRegistryCredentials: TRUE iff it returns an authenticator; o.username and
\* o.password tell whether USERNAME and PASSWORD are set when it reads them
getRegistryCredentials(o) == ~(~o.username \/ ~o.password)

\* name.ParseReference: the references of the model are well formed unless empty
ParseReferenceOk(ref) == Len(ref) > 0

\* the tag name.ParseReference gives a reference that names none
RefTag(tag) == IF Len(tag) > 0 THEN tag ELSE DefaultTag

NoMirror == [err |-> FALSE, img |-> <<>>, pulls |-> 0, lists |-> 0, pushes |-> 0]

\* processImage: o.pull, o.list, o.push are the outcomes of remote.Image,
\* remote.List and remote.Write; reg is the backup registry before the call
processImage(imgName, reg, o) ==
    IF ~ParseReferenceOk(imgName) THEN [NoMirror EXCEPT !.err = TRUE] @@ [registry |-> reg]
    ELSE IF ~getRegistryCredentials(o) THEN [NoMirror EXCEPT !.err = TRUE] @@ [registry |-> reg]
    ELSE IF ~o.pull THEN [NoMirror EXCEPT !.err = TRUE, !.pulls = 1] @@ [registry |-> reg]
    ELSE LET rt == retagImage(imgName)
         IN  IF ~ParseReferenceOk(rt.newImage)
             THEN [NoMirror EXCEPT !.err = TRUE, !.pulls = 1] @@ [registry |-> reg]
             ELSE IF imageAlreadyPresentInRepo(reg, rt.imageName, rt.tag, o.list)
             THEN [NoMirror EXCEPT !.img = rt.newImage, !.pulls = 1, !.lists = 1]
                      @@ [registry |-> reg]
             ELSE IF ~o.push
             THEN [NoMirror EXCEPT !.err = TRUE, !.pulls = 1, !.lists = 1, !.pushes = 1]
                      @@ [registry |-> reg]
             ELSE [NoMirror EXCEPT !.img = rt.newImage, !.pulls = 1, !.lists = 1, !.pushes = 1]
                      @@ [registry |-> reg \cup {<<rt.imageName, RefTag(rt.tag)>>}]

imageNotPresent_noPrefixTest(image) ==
    IF Len(repository) = 0 THEN FALSE ELSE TRUE

imageNotPresent(image) ==
    IF Len(repository) = 0 THEN FALSE
    ELSE IF ~HasPrefix(image, repository) THEN TRUE
    ELSE FALSE

\* ------------------------------------------------- pkg/controller: readiness
isDeploymentReady_zeroAccepted(deployment) ==
    deployment.desired = deployment.ready

isDeploymentReady(deployment) ==
    deployment.desired = deployment.ready /\ deployment.desired > 0

isDaemonSetReady(daemonsets) ==
    daemonsets.desired = daemonsets.ready /\ daemonsets.desired > 0

\* ------------------------------------------------------------ the work queue
\* client-go's rate limiting queue, as the controller uses it
EmptyQueue == [queue |-> <<>>, dirty |-> {}, processing |-> {}, waiting |-> {},
               failures |-> {}, shuttingDown |-> FALSE]

InQueue(q, it) == \E i \in 1..Len(q.queue) : q.queue[i] = it

\* workqueue.Add without the test of the processing set
Add_noProcessingTest(q, it) ==
    IF q.shuttingDown THEN q
    ELSE IF it \in q.dirty THEN q
    ELSE [q EXCEPT !.dirty = @ \cup {it}, !.queue = Append(@, it)]

\* workqueue.Add without the test of the dirty set
Add_noDirtyTest(q, it) ==
    IF q.shuttingDown THEN q
    ELSE IF it \in q.processing THEN [q EXCEPT !.dirty = @ \cup {it}]
    ELSE [q EXCEPT !.dirty = @ \cup {it}, !.queue = Append(@, it)]

Add(q, it) ==
    IF q.shuttingDown THEN q
    ELSE IF it \in q.dirty THEN q
    ELSE IF it \in q.processing THEN [q EXCEPT !.dirty = @ \cup {it}]
    ELSE [q EXCEPT !.dirty = @ \cup {it}, !.queue = Append(@, it)]

Done(q, it) ==
    IF it \in q.dirty
    THEN [q EXCEPT !.processing = @ \ {it}, !.queue = Append(@, it)]
    ELSE [q EXCEPT !.processing = @ \ {it}]

\* failures: the items whose failure count in the rate limiter is not zero
Forget(q, it) == [q EXCEPT !.failures = @ \ {it}]

\* AddRateLimited that counts the failure and never adds the item again
AddRateLimited_notAdded(q, it) == [q EXCEPT !.failures = @ \cup {it}]

\* the rate limiter counts a failure of the item; the item is added after a delay
AddRateLimited(q, it) ==
    IF q.shuttingDown THEN [q EXCEPT !.failures = @ \cup {it}]
    ELSE [q EXCEPT !.failures = @ \cup {it}, !.waiting = @ \cup {it}]

ShutDown(q) == [q EXCEPT !.shuttingDown = TRUE]

\* ------------------------------------------------ the cluster API collaborator
\* lister Get: the cached object, or NoObj (a nil pointer and a NotFound error)
ListerGet(resourceType, namespace, name) ==
    LET k == resourceType \o <<"/">> \o namespace \o <<"/">> \o name
    IN  IF k \in DOMAIN cache THEN cache[k] ELSE NoObj

\* Update of the API client: o.update is FALSE when the transport fails
UpdateResult(k, o) ==
    IF ~o.update THEN "error"
    ELSE IF ~api[k].exists THEN "notfound"
    ELSE IF ~fresh[k] THEN "conflict"
    ELSE "ok"

\* what one pass reads from the environment and gets from the registry's and the
\* API server's transports; a step that a failure keeps the pass from has no outcome
\* of its own (it is listed as TRUE)
Outcomes ==
    {o \in [username : BOOLEAN, password : BOOLEAN, pull : BOOLEAN, list : BOOLEAN,
            push : BOOLEAN, update : BOOLEAN] :
        /\ ~(o.username /\ o.password) => (o.pull /\ o.list /\ o.push /\ o.update)
        /\ ~o.pull => (o.list /\ o.push /\ o.update)
        /\ ~o.push => o.update}

\* ----------------------------------------------- pkg/controller: the reconciler
\* the record of one reconcile pass
NoPass == [key |-> <<>>, ret |-> "none", lookups |-> 0, found |-> FALSE, before |-> NoObj,
           readyChecks |-> 0, mirrorCalls |-> 0, mirrorErr |-> FALSE, index |-> 0,
           src |-> <<>>, dst |-> <<>>, again |-> FALSE, listOk |-> FALSE,
           pulls |-> 0, lists |-> 0, pushes |-> 0,
           updates |-> 0, updateRes |-> "none", sent |-> NoObj,
           forgets |-> 0, addRateLimiteds |-> 0, dones |-> 0]

World == [cache |-> cache, api |-> api, fresh |-> fresh, registry |-> registry]

\* the test of processImage's error in checkAndUpdateImage
mirrorFailed_ignored(m) == FALSE

mirrorFailed(m) == m.err

\* what checkAndUpdateImage returns after the Update call: nil iff err == nil
updateReturn_conflictDropped(res) == IF res \in {"ok", "conflict"} THEN "nil" ELSE "err"

updateReturn(res) == IF res = "ok" THEN "nil" ELSE "err"

\* the record of a pass that has asked the lister (looked = 1) and got obj
lookedUp(key, obj, looked) ==
    [NoPass EXCEPT !.key = key, !.lookups = looked, !.found = obj.exists, !.before = obj]
        @@ World

\* the record p after the call of processImage on container i, which returned m
mirrorCalled(p, i, src, o, m) ==
    [f \in {"registry", "pulls", "lists", "pushes"} |-> m[f]]
        @@ [p EXCEPT !.mirrorCalls = 1, !.index = i, !.src = src,
                     !.again = src \in mirrored, !.listOk = o.list, !.mirrorErr = m.err]

\* checkAndUpdateImage, lines 311-324: sent is the lister's object with the new
\* image written into it, res the result of Update
updateImage(k, sent, img, res, p) ==
    IF res = "ok"
    THEN [p EXCEPT !.dst = img, !.updates = 1, !.updateRes = res, !.sent = sent,
                   !.cache[k] = sent, !.ret = updateReturn(res),
                   !.api[k].containers = sent.containers, !.fresh[k] = FALSE]
    ELSE [p EXCEPT !.dst = img, !.updates = 1, !.updateRes = res, !.sent = sent,
                   !.cache[k] = sent, !.ret = updateReturn(res)]

\* an update that rewrites the image of every container
mirrorAndUpdate_allContainers(k, obj, i, o, m, p) ==
    IF mirrorFailed(m) THEN [p EXCEPT !.ret = "err"]
    ELSE updateImage(k, [obj EXCEPT !.containers =
                            [j \in 1..Len(obj.containers) |->
                                [obj.containers[j] EXCEPT !.image = m.img]]],
                     m.img, UpdateResult(k, o), p)

\* checkAndUpdateImage, lines 307-324: m is what processImage returned
mirrorAndUpdate(k, obj, i, o, m, p) ==
    IF mirrorFailed(m) THEN [p EXCEPT !.ret = "err"]
    ELSE updateImage(k, [obj EXCEPT !.containers[i].image = m.img], m.img,
                     UpdateResult(k, o), p)

\* checkAndUpdateImage, lines 303-331: for i, cont := range containers; both
\* branches of the loop's body return, so the body runs for the first container only
rangeContainers(k, obj, o, p) ==
    IF Len(obj.containers) = 0 THEN [p EXCEPT !.ret = "err"]
    ELSE IF imageNotPresent(obj.containers[1].image)
    THEN CHOOSE r \in {mirrorAndUpdate(k, obj, 1, o, m,
                            mirrorCalled(p, 1, obj.containers[1].image, o, m)) :
                        m \in {processImage(obj.containers[1].image, registry, o)}} : TRUE
    ELSE [p EXCEPT !.ret = "nil"]

\* checkAndUpdateImage, lines 278-301: errs is never assigned, so the lister's
\* error is not examined; isDeploymentReady / isDaemonSetReady dereference the
\* nil pointer of a lookup that failed
checkReady(k, isDep, obj, o, p) ==
    IF ~obj.exists THEN [p EXCEPT !.ret = "panic", !.readyChecks = 1]
    ELSE IF ~(IF isDep THEN isDeploymentReady(obj) ELSE isDaemonSetReady(obj))
    THEN [p EXCEPT !.ret = "err", !.readyChecks = 1]
    ELSE rangeContainers(k, obj, o, [p EXCEPT !.readyChecks = 1])

\* checkAndUpdateImage: ret is "nil", "err" or "panic"
checkAndUpdateImage(key, resourceType, namespace, name, o) ==
    IF resourceType = <<"deployment">> \/ resourceType = <<"daemonset">>
    THEN CHOOSE r \in {checkReady(resourceType \o <<"/">> \o namespace \o <<"/">> \o name,
                                   resourceType = <<"deployment">>, obj, o,
                                   lookedUp(key, obj, 1)) :
                        obj \in {ListerGet(resourceType, namespace, name)}} : TRUE
    ELSE [lookedUp(key, NoObj, 0) EXCEPT !.ret = "err"]

\* the namespace test of processNext: TRUE iff the key is passed to checkAndUpdateImage
notKubeSystem_kind(parts) == parts[1] # <<"kube-system">>

notKubeSystem(parts) == parts[2] # <<"kube-system">>

\* processNext, lines 244-250 and the deferred Done: r is the record of the pass
\* up to the return of checkAndUpdateImage
requeueOrForget(obj, key, r) ==
    IF r.ret = "panic"
    THEN [r EXCEPT !.dones = 1] @@ [workqueue |-> Done(workqueue, obj)]
    ELSE IF r.ret = "err"
    THEN [r EXCEPT !.addRateLimiteds = 1, !.dones = 1]
             @@ [workqueue |-> Done(AddRateLimited(workqueue, key), obj)]
    ELSE [r EXCEPT !.forgets = 1, !.dones = 1]
             @@ [workqueue |-> Done(Forget(workqueue, obj), obj)]

\* processNext with a malformed key requeued as a failure is
splitKey_malformedRequeued(obj, key, parts, o) ==
    IF Len(parts) # 3
    THEN [lookedUp(key, NoObj, 0) EXCEPT !.ret = "err", !.addRateLimiteds = 1, !.dones = 1]
             @@ [workqueue |-> Done(AddRateLimited(workqueue, key), obj)]
    ELSE CHOOSE q \in {requeueOrForget(obj, key, r) :
                        r \in {IF notKubeSystem(parts)
                               THEN checkAndUpdateImage(key, parts[1], parts[2], parts[3], o)
                               ELSE [lookedUp(key, NoObj, 0) EXCEPT !.ret = "nil"]}} : TRUE

\* processNext, lines 236-248
splitKey(obj, key, parts, o) ==
    IF Len(parts) # 3
    THEN [lookedUp(key, NoObj, 0) EXCEPT !.ret = "nil", !.dones = 1]
             @@ [workqueue |-> Done(workqueue, obj)]
    ELSE CHOOSE q \in {requeueOrForget(obj, key, r) :
                        r \in {IF notKubeSystem(parts)
                               THEN checkAndUpdateImage(key, parts[1], parts[2], parts[3], o)
                               ELSE [lookedUp(key, NoObj, 0) EXCEPT !.ret = "nil"]}} : TRUE

\* processNext of runWorker, with its deferred Done
processNext(obj, o) ==
    CHOOSE r \in {splitKey(obj, obj, parts, o) : parts \in {Split(obj, "/")}} : TRUE

\* ------------------------------------------------------------------- actions
\* the step of one reconcile pass: processNext runs to its deferred Done
PassStep == workerPc = "process" /\ workerPc' \in {"get", "panicked"}

\* the controller's process runs (what the cluster does afterwards is not followed)
Alive == workerPc # "panicked" /\ runPc \notin {"exited", "killed", "fatal"}

KindOf(k) == k[1]

syncDeploymentImage(ns, name) == Add(workqueue, <<"deployment", "/">> \o MetaNamespaceKey(ns, name))

syncDaemonsetImage(ns, name) == Add(workqueue, <<"daemonset", "/">> \o MetaNamespaceKey(ns, name))

\* the process exits: its memory is gone
Exit(how) ==
    /\ runPc' = how
    /\ workerPc' = "none"
    /\ item' = <<>>
    /\ cache' = [k \in Keys |-> NoObj]
    /\ fresh' = [k \in Keys |-> TRUE]
    /\ pending' = {}
    /\ synced' = [kd \in Kinds |-> FALSE]
    /\ workqueue' = EmptyQueue
    /\ last' = NoPass

Init ==
    /\ repository \in Repositories
    /\ \E present \in Clusters, imgs \in ImageLists, st \in Statuses :
          api = [k \in Keys |-> IF k \in present THEN Obj(st[1], st[2], imgs) ELSE NoObj]
    /\ cache = [k \in Keys |-> NoObj]
    /\ fresh = [k \in Keys |-> ~api[k].exists]
    /\ pending = {}
    /\ synced = [kd \in Kinds |-> FALSE]
    /\ workqueue = EmptyQueue
    /\ registry = {}
    /\ stopCh = FALSE
    /\ runPc = "waitDeployment"
    /\ workerPc = "none"
    /\ item = <<>>
    /\ last = NoPass
    /\ mirrored = {}
    /\ envOps = 0

\* one pod more or less is desired, or one pod more or less is ready
StatusStep(old, new) ==
    \/ new[1] = old[1] /\ (new[2] = old[2] + 1 \/ new[2] = old[2] - 1)
    \/ new[2] = old[2] /\ (new[1] = old[1] + 1 \/ new[1] = old[1] - 1)

\* a user or a cluster controller changes the status of a workload
StatusChange(k) ==
    /\ Alive
    /\ envOps < MaxEnvOps
    /\ api[k].exists
    /\ \E st \in Statuses :
          /\ StatusStep(<<api[k].desired, api[k].ready>>, st)
          /\ api' = [api EXCEPT ![k].desired = st[1], ![k].ready = st[2]]
    /\ fresh' = [fresh EXCEPT ![k] = FALSE]
    /\ envOps' = envOps + 1
    /\ UNCHANGED <<repository, cache, pending, synced, workqueue, registry,
                   stopCh, runPc, workerPc, item, mirrored>>
    /\ last' = NoPass

\* a user deletes a workload
DeleteWorkload(k) ==
    /\ Alive
    /\ envOps < MaxEnvOps
    /\ api[k].exists
    /\ api' = [api EXCEPT ![k] = NoObj]
    /\ fresh' = [fresh EXCEPT ![k] = ~cache[k].exists]
    /\ envOps' = envOps + 1
    /\ UNCHANGED <<repository, cache, pending, synced, workqueue, registry,
                   stopCh, runPc, workerPc, item, mirrored>>
    /\ last' = NoPass

\* informerFactory.Start: the initial list of one kind fills the store
InformerList(kind) ==
    /\ Alive /\ ~stopCh
    /\ ~synced[kind]
    /\ cache' = [k \in Keys |-> IF KindOf(k) = kind THEN api[k] ELSE cache[k]]
    /\ fresh' = [k \in Keys |-> IF KindOf(k) = kind THEN TRUE ELSE fresh[k]]
    /\ pending' = pending \cup {k \in Keys : KindOf(k) = kind /\ api[k].exists}
    /\ synced' = [synced EXCEPT ![kind] = TRUE]
    /\ UNCHANGED <<repository, api, workqueue, registry, stopCh, runPc,
                   workerPc, item, mirrored, envOps>>
    /\ last' = NoPass

\* a watch event brings the store up to date (a deletion has no handler)
WatchEvent(k) ==
    /\ Alive /\ ~stopCh
    /\ synced[KindOf(k)]
    /\ ~fresh[k]
    /\ cache' = [cache EXCEPT ![k] = api[k]]
    /\ fresh' = [fresh EXCEPT ![k] = TRUE]
    /\ pending' = IF api[k].exists THEN pending \cup {k} ELSE pending
    /\ UNCHANGED <<repository, api, synced, workqueue, registry, stopCh,
                   runPc, workerPc, item, mirrored, envOps>>
    /\ last' = NoPass

\* the informer calls the handlers of object k: for the add or update that a
\* watch event brought, or for a periodic resync of the stored object
Notified(k) ==
    \/ k \in pending
    \/ synced[KindOf(k)] /\ cache[k].exists /\ ~stopCh

\* AddFunc / UpdateFunc of the deployment informer
SyncDeploymentImage(k) ==
    /\ Alive
    /\ KindOf(k) = "deployment" /\ Notified(k)
    /\ workqueue' = syncDeploymentImage(k[3], k[5])
    /\ pending' = pending \ {k}
    /\ UNCHANGED <<repository, api, cache, fresh, synced, registry, stopCh,
                   runPc, workerPc, item, mirrored, envOps>>
    /\ last' = NoPass

\* AddFunc / UpdateFunc of the daemonset informer
SyncDaemonsetImage(k) ==
    /\ Alive
    /\ KindOf(k) = "daemonset" /\ Notified(k)
    /\ workqueue' = syncDaemonsetImage(k[3], k[5])
    /\ pending' = pending \ {k}
    /\ UNCHANGED <<repository, api, cache, fresh, synced, registry, stopCh,
                   runPc, workerPc, item, mirrored, envOps>>
    /\ last' = NoPass

\* the delay of an AddRateLimited elapses
DelayElapsed(k) ==
    /\ Alive
    /\ k \in workqueue.waiting
    /\ workqueue' = Add([workqueue EXCEPT !.waiting = @ \ {k}], k)
    /\ UNCHANGED <<repository, api, cache, fresh, pending, synced, registry,
                   stopCh, runPc, workerPc, item, mirrored, envOps>>
    /\ last' = NoPass

\* the signal goroutine of RunController: the first signal closes stopCh,
\* the second exits the process
Signal ==
    /\ Alive
    /\ IF ~stopCh
       THEN /\ stopCh' = TRUE
            /\ UNCHANGED <<cache, fresh, pending, synced, workqueue, runPc,
                           workerPc, item>>
            /\ last' = NoPass
       ELSE /\ stopCh' = stopCh
            /\ Exit("killed")
    /\ UNCHANGED <<repository, api, registry, mirrored, envOps>>

\* a wait that returns true without the informer having synced
WaitForCacheSync_notAwaited(kind) == TRUE

\* cache.WaitForCacheSync(stopCh, synced) returns true: the informer has synced
WaitForCacheSync(kind) == synced[kind]

\* run: WaitForCacheSync(stopCh, c.deploymentSynced); on failure RunController
\* logs a fatal error, which exits the process
RunWaitDeployment ==
    /\ Alive /\ runPc = "waitDeployment"
    /\ \/ /\ WaitForCacheSync("deployment")
          /\ runPc' = "waitDaemonset"
          /\ UNCHANGED <<cache, fresh, pending, synced, workqueue, workerPc, item>>
          /\ last' = NoPass
       \/ /\ stopCh
          /\ Exit("fatal")
    /\ UNCHANGED <<repository, api, registry, stopCh, mirrored, envOps>>

\* run: WaitForCacheSync(stopCh, c.daemonsetSynced), then go wait.Until(c.runWorker, ...)
RunWaitDaemonset ==
    /\ Alive /\ runPc = "waitDaemonset"
    /\ \/ /\ WaitForCacheSync("daemonset")
          /\ runPc' = "running"
          /\ workerPc' = "start"
          /\ UNCHANGED <<cache, fresh, pending, synced, workqueue, item>>
          /\ last' = NoPass
       \/ /\ stopCh
          /\ Exit("fatal")
    /\ UNCHANGED <<repository, api, registry, stopCh, mirrored, envOps>>

\* run: <-stopCh, the deferred ShutDown, return nil
RunStop ==
    /\ Alive /\ runPc = "running"
    /\ stopCh
    /\ workqueue' = ShutDown(workqueue)
    /\ runPc' = "returned"
    /\ UNCHANGED <<repository, api, cache, fresh, pending, synced, registry,
                   stopCh, workerPc, item, mirrored, envOps>>
    /\ last' = NoPass

\* RunController and main return: the process exits
MainReturn ==
    /\ Alive /\ runPc = "returned"
    /\ Exit("exited")
    /\ UNCHANGED <<repository, api, registry, stopCh, mirrored, envOps>>

\* wait.Until: runWorker is not called once stopCh is closed
WorkerStart ==
    /\ Alive /\ workerPc = "start"
    /\ workerPc' = IF stopCh THEN "stopped" ELSE "get"
    /\ UNCHANGED <<repository, api, cache, fresh, pending, synced, workqueue,
                   registry, stopCh, runPc, item, mirrored, envOps>>
    /\ last' = NoPass

\* runWorker: res, shutdown := c.workqueue.Get()
WorkerGet ==
    /\ Alive /\ workerPc = "get"
    /\ IF Len(workqueue.queue) > 0
       THEN /\ item' = Head(workqueue.queue)
            /\ workqueue' = [workqueue EXCEPT !.queue = Tail(@),
                               !.processing = @ \cup {Head(workqueue.queue)},
                               !.dirty = @ \ {Head(workqueue.queue)}]
            /\ workerPc' = "process"
       ELSE /\ workqueue.shuttingDown
            /\ workerPc' = "stopped"
            /\ UNCHANGED <<item, workqueue>>
    /\ UNCHANGED <<repository, api, cache, fresh, pending, synced, registry,
                   stopCh, runPc, mirrored, envOps>>
    /\ last' = NoPass

\* runWorker: processNext(res)
ProcessNext ==
    /\ Alive /\ workerPc = "process"
    /\ \E r \in {processNext(item, o) : o \in Outcomes} :
              /\ cache' = r.cache
              /\ api' = r.api
              /\ fresh' = r.fresh
              /\ registry' = r.registry
              /\ workqueue' = r.workqueue
              /\ last' = [f \in DOMAIN NoPass |-> r[f]]
              /\ mirrored' = IF r.mirrorCalls = 1 /\ ~r.mirrorErr
                             THEN mirrored \cup {r.src} ELSE mirrored
              /\ workerPc' = IF r.ret = "panic" THEN "panicked" ELSE "get"
    /\ item' = <<>>
    /\ UNCHANGED <<repository, pending, synced, stopCh, runPc, envOps>>

Next ==
    \/ \E k \in Keys : StatusChange(k)
    \/ \E k \in Keys : DeleteWorkload(k)
    \/ \E kd \in Kinds : InformerList(kd)
    \/ \E k \in Keys : WatchEvent(k)
    \/ \E k \in Keys : SyncDeploymentImage(k)
    \/ \E k \in Keys : SyncDaemonsetImage(k)
    \/ \E k \in Keys : DelayElapsed(k)
    \/ Signal
    \/ RunWaitDeployment
    \/ RunWaitDaemonset
    \/ RunStop
    \/ MainReturn
    \/ WorkerStart
    \/ WorkerGet
    \/ ProcessNext

Spec == Init /\ [][Next]_vars

\* ------------------------------------------- the mirroring protocol on its own
\* source references given to processImage
MirrorSources == Images \cup { <<"m", "/", "a">>, <<"n", "/", "a", ":", "1">>,
                               <<"a", ":", "2">> }

\* processImage is reached only with a non-empty REPOSITORY (imageNotPresent)
InitMirror ==
    /\ repository \in {rp \in Repositories : Len(rp) > 0}
    /\ api = [k \in Keys |-> NoObj]
    /\ cache = [k \in Keys |-> NoObj]
    /\ fresh = [k \in Keys |-> TRUE]
    /\ pending = {}
    /\ synced = [kd \in Kinds |-> FALSE]
    /\ workqueue = EmptyQueue
    /\ registry = {}
    /\ stopCh = FALSE
    /\ runPc = "waitDeployment"
    /\ workerPc = "none"
    /\ item = <<>>
    /\ last = NoPass
    /\ mirrored = {}
    /\ envOps = 0

\* one call of processImage, the registry having no other writer
ProcessImageCall(imgName) ==
    /\ \E o \in Outcomes : \E m \in {processImage(imgName, registry, o)} :
          /\ registry' = m.registry
          /\ last' = [NoPass EXCEPT !.ret = IF m.err THEN "err" ELSE "nil",
                        !.mirrorCalls = 1, !.mirrorErr = m.err,
                        !.src = imgName, !.dst = m.img,
                        !.again = imgName \in mirrored, !.listOk = o.list,
                        !.pulls = m.pulls, !.lists = m.lists, !.pushes = m.pushes]
          /\ mirrored' = IF m.err THEN mirrored ELSE mirrored \cup {imgName}
    /\ UNCHANGED <<repository, api, cache, fresh, pending, synced, workqueue, stopCh,
                   runPc, workerPc, item, envOps>>

NextMirror == \E imgName \in MirrorSources : ProcessImageCall(imgName)

SpecMirror == InitMirror /\ [][NextMirror]_vars

\* ------------------------------------ the handlers and the worker on their own
\* an object without metadata: MetaNamespaceKeyFunc returns "" and an error
\* (deployments and daemonsets are namespaced, so a key without a namespace does
\* not arise otherwise)
BadObjects == {[meta |-> FALSE, namespace |-> "", name |-> ""]}

\* cache.MetaNamespaceKeyFunc: "" and an error, namespace/name, or name
MetaNamespaceKeyFunc(obj) ==
    IF ~obj.meta THEN <<>>
    ELSE IF obj.namespace # "" THEN MetaNamespaceKey(obj.namespace, obj.name)
    ELSE <<obj.name>>

\* syncDeploymentImage / syncDaemonsetImage: the error of the key function is
\* logged and the key is added all the same
syncImage(kind, obj) == Add(workqueue, <<kind, "/">> \o MetaNamespaceKeyFunc(obj))

\* the informers have synced and the worker is running
InitHandlers ==
    /\ repository \in Repositories
    /\ \E present \in Clusters, imgs \in ImageLists, st \in Statuses :
          api = [k \in Keys |-> IF k \in present THEN Obj(st[1], st[2], imgs) ELSE NoObj]
    /\ cache = api
    /\ fresh = [k \in Keys |-> TRUE]
    /\ pending = {}
    /\ synced = [kd \in Kinds |-> TRUE]
    /\ workqueue = EmptyQueue
    /\ registry = {}
    /\ stopCh = FALSE
    /\ runPc = "running"
    /\ workerPc = "get"
    /\ item = <<>>
    /\ last = NoPass
    /\ mirrored = {}
    /\ envOps = 0

\* a handler is called with a cached workload or with an object it cannot key
SyncImage(kind, obj) ==
    /\ Alive
    /\ \/ obj \in BadObjects
       \/ /\ obj.meta /\ obj.namespace \in Namespaces /\ obj.name \in Names
          /\ cache[KeyOf(kind, obj.namespace, obj.name)].exists
    /\ workqueue' = syncImage(kind, obj)
    /\ last' = NoPass
    /\ UNCHANGED <<repository, api, cache, fresh, pending, synced, registry, stopCh,
                   runPc, workerPc, item, mirrored, envOps>>

HandlerObjects ==
    BadObjects \cup {[meta |-> TRUE, namespace |-> ns, name |-> nm] :
                        ns \in Namespaces, nm \in Names}

NextHandlers ==
    \/ \E kd \in Kinds, obj \in HandlerObjects : SyncImage(kd, obj)
    \/ \E k \in Keys : DelayElapsed(k)
    \/ WorkerGet
    \/ ProcessNext

SpecHandlers == InitHandlers /\ [][NextHandlers]_vars

\* the workloads of one container (a pass reads the first container only)
InitRetry == InitHandlers /\ \A k \in Keys : Len(api[k].containers) <= 1

\* the worker goroutine and the timers of the delaying queue are scheduled: the
\* worker takes its next step and an elapsed delay adds its item; nothing is
\* assumed of the handlers
FairHandlers ==
    /\ InitRetry /\ [][NextHandlers]_vars
    /\ WF_vars(WorkerGet) /\ WF_vars(PassStep /\ ProcessNext)
    /\ \A k \in Keys : WF_vars(DelayElapsed(k))

\* ------------------------------------------------------------ the properties
\* the last reconcile pass, as the properties read it
PassEnded == last.ret # "none"

LastParts == Split(last.key, "/")

LastNamespace == IF Len(LastParts) = 3 THEN LastParts[2] ELSE <<>>

\* readiness as the glossary defines it
Ready(obj) == obj.desired = obj.ready /\ obj.desired > 0

NoRegistryCall == last.pulls = 0 /\ last.lists = 0 /\ last.pushes = 0

Forgotten == last.forgets = 1 /\ last.addRateLimiteds = 0

Requeued == last.addRateLimiteds = 1 /\ last.forgets = 0

\* the last pass looked up a ready workload
ReadyPass == PassEnded /\ last.found /\ Ready(last.before) /\ Len(last.before.containers) > 0

FirstImage == last.before.containers[1].image

\* C1: a pass on a key of namespace kube-system, of either kind, makes no cache
\* lookup, no readiness check, no mirror call and no update call, and calls
\* Forget and not AddRateLimited.
C1_KubeSystemSkipped ==
    (PassEnded /\ LastNamespace = <<"kube-system">>) =>
        /\ last.lookups = 0 /\ last.readyChecks = 0
        /\ last.mirrorCalls = 0 /\ NoRegistryCall
        /\ last.updates = 0
        /\ Forgotten

\* a kube-system daemonset that is ready and whose image is not mirrored was skipped
C1_Witness ==
    /\ PassEnded /\ last.key = KeyOf("daemonset", "kube-system", "app")
    /\ Ready(cache[last.key]) /\ imageNotPresent(cache[last.key].containers[1].image)
    /\ last.forgets = 1

\* prefix/name[:tag]: the last path segment of the source under the prefix
DestinationOf(src) == repository \o <<"/">> \o Split(src, "/")[Len(Split(src, "/"))]

\* the repository and the tag a reference names in the registry
RepositoryOf(ref) == SubSeq(ref, 1, IF Contains(ref, ":") THEN IndexOf(ref, ":") - 1 ELSE Len(ref))

TagOf(ref) == IF Contains(ref, ":") THEN SubSeq(ref, IndexOf(ref, ":") + 1, Len(ref)) ELSE DefaultTag

\* C2: a pass on a ready workload outside kube-system whose first image is a
\* one- or two-segment reference that does not begin with the prefix calls the
\* mirror once and, unless the mirror or the update fails, leaves the image at
\* prefix/name[:tag] in the registry, issues one update whose first container
\* has that reference, and calls Forget and not AddRateLimited.
C2_MirrorAndRewrite ==
    (ReadyPass /\ ~HasPrefix(FirstImage, repository) /\ Len(Split(FirstImage, "/")) <= 2) =>
        /\ last.mirrorCalls = 1 /\ last.src = FirstImage
        /\ (last.mirrorErr \/ last.updateRes # "ok") \/
              /\ last.dst = DestinationOf(FirstImage)
              /\ <<RepositoryOf(last.dst), TagOf(last.dst)>> \in registry
              /\ last.updates = 1
              /\ last.sent.containers[1].image = DestinationOf(FirstImage)
              /\ last.ret = "nil" /\ Forgotten

\* m/a:1 was mirrored to b/a:1 and the update succeeded
C2_Witness ==
    /\ ReadyPass /\ FirstImage = <<"m", "/", "a", ":", "1">>
    /\ last.updateRes = "ok"
    /\ last.sent.containers[1].image = <<"b", "/", "a", ":", "1">>
    /\ <<<<"b", "/", "a">>, <<"1">>>> \in registry

\* C3: a pass on a ready workload whose first image begins with the prefix makes
\* no registry call and no update call, and calls Forget and not AddRateLimited.
C3_AlreadyMirroredSkipped ==
    (ReadyPass /\ HasPrefix(FirstImage, repository)) =>
        /\ last.mirrorCalls = 0 /\ NoRegistryCall
        /\ last.updates = 0
        /\ last.ret = "nil" /\ Forgotten

\* b/a:1 under the prefix b was skipped
C3_Witness ==
    /\ ReadyPass /\ repository = <<"b">> /\ FirstImage = <<"b", "/", "a", ":", "1">>
    /\ last.forgets = 1 /\ last.updates = 0

\* C4: a mirror call for a source that an earlier call has mirrored, with the
\* destination listing answering, issues no push (the two calls together push once).
C4_SecondCallDoesNotPush ==
    (PassEnded /\ last.mirrorCalls = 1 /\ last.again /\ last.lists = 1 /\ last.listOk) =>
        last.pushes = 0

\* C5: the passes on a ready workload converge: a pass that ends the chain (it
\* returns nil without an update, so nothing triggers another pass) leaves no
\* container image outside the prefix.
C5_Converges ==
    (ReadyPass /\ Len(repository) > 0 /\ last.ret = "nil" /\ last.updates = 0) =>
        \A i \in 1..Len(last.before.containers) :
            HasPrefix(last.before.containers[i].image, repository)

\* C6: a pass whose cache lookup finds no object makes no readiness check, no
\* mirror call and no update call, and calls Forget and not AddRateLimited.
C6_NotFoundSkipped ==
    (PassEnded /\ last.lookups = 1 /\ ~last.found) =>
        /\ last.readyChecks = 0
        /\ last.mirrorCalls = 0 /\ last.updates = 0
        /\ last.ret = "nil" /\ Forgotten

\* C7: a pass on a workload, of either kind, whose desired count is zero or
\* differs from its ready count makes no mirror call and no update call, returns
\* an error, and calls AddRateLimited and not Forget.
C7_NotReadyRequeued ==
    (PassEnded /\ last.found
       /\ (last.before.desired = 0 \/ last.before.desired # last.before.ready)) =>
        /\ last.mirrorCalls = 0 /\ NoRegistryCall
        /\ last.updates = 0
        /\ last.ret = "err" /\ Requeued

\* a deployment scaled to zero whose image is not mirrored was requeued
C7_Witness ==
    /\ PassEnded /\ last.found /\ KindOf(last.key) = "deployment"
    /\ last.before.desired = 0 /\ last.before.ready = 0
    /\ imageNotPresent(last.before.containers[1].image)
    /\ last.addRateLimiteds = 1

\* C8: a pass whose update fails with a conflict has issued one update and one
\* lookup, returns an error, and calls AddRateLimited and not Forget.
C8_ConflictRequeued ==
    (PassEnded /\ last.updateRes = "conflict") =>
        /\ last.updates = 1 /\ last.lookups = 1
        /\ last.ret = "err" /\ Requeued

\* an update met a conflict and the key waits for its delay
C8_Witness ==
    /\ PassEnded /\ last.updateRes = "conflict"
    /\ last.addRateLimiteds = 1 /\ last.key \in workqueue.waiting

\* C9: a pass whose mirror call fails issues no update, returns an error and
\* calls AddRateLimited and not Forget; the step of that pass changes neither
\* the stored workloads nor the cached ones.
C9_MirrorFailureNoUpdate ==
    /\ []((PassEnded /\ last.mirrorCalls = 1 /\ last.mirrorErr) =>
            (last.updates = 0 /\ last.ret = "err" /\ Requeued))
    /\ [][(workerPc = "process" /\ workerPc' \in {"get", "panicked"}
             /\ last'.mirrorCalls = 1 /\ last'.mirrorErr) =>
            (api' = api /\ cache' = cache)]_vars

\* a push failed and the key waits for its delay
C9_Witness ==
    /\ PassEnded /\ last.mirrorErr /\ last.pushes = 1
    /\ last.updates = 0 /\ last.key \in workqueue.waiting

\* C10: no pass panics: every pass returns nil or an error and the worker goes
\* on to the next Get.
C10_NeverPanics == last.ret \in {"none", "nil", "err"} /\ workerPc # "panicked"

\* ------------------------------------------------------ the queue's properties
\* the number of times Get can still hand out the item
Occurrences(q, it) == Cardinality({i \in 1..Len(q.queue) : q.queue[i] = it})

\* a handler or an elapsed delay adds key k to the queue
AddStep(k) == SyncDeploymentImage(k) \/ SyncDaemonsetImage(k) \/ DelayElapsed(k)

\* C11: while a pass for a key is in flight the key is in the processing set and
\* Get cannot hand it out; an add of that key during the pass only marks it dirty;
\* the Done that ends the pass puts a dirty key into the queue exactly once and
\* a key that is not dirty not at all.
C11_InFlightExclusion ==
    /\ [](workerPc = "process" =>
            item \in workqueue.processing /\ Occurrences(workqueue, item) = 0)
    /\ [][\A k \in Keys :
            (AddStep(k) /\ workerPc = "process" /\ item = k /\ ~workqueue.shuttingDown) =>
                (k \in workqueue'.dirty /\ workqueue'.queue = workqueue.queue)]_vars
    /\ [][PassStep =>
            /\ item \notin workqueue'.processing
            /\ Occurrences(workqueue', item) = (IF item \in workqueue.dirty THEN 1 ELSE 0)
            /\ last'.dones = 1]_vars

\* a pass that called Forget ended with its key back in the queue: the key was
\* added again while the pass was in flight
C11_Witness ==
    /\ PassEnded /\ last.forgets = 1 /\ last.addRateLimiteds = 0
    /\ Occurrences(workqueue, last.key) = 1 /\ last.key \notin workqueue.processing

\* C12: the queue never holds two occurrences of a key, a queued key is dirty,
\* and an add of a key that is already queued leaves the queue as it is.
C12_AtMostOnePending ==
    /\ [](\A k \in Keys :
            /\ Occurrences(workqueue, k) <= 1
            /\ Occurrences(workqueue, k) = 1 => k \in workqueue.dirty)
    /\ [][\A k \in Keys :
            (AddStep(k) /\ Occurrences(workqueue, k) = 1) =>
                workqueue'.queue = workqueue.queue]_vars

\* the worker has not yet called Get, a key is queued once by an earlier
\* notification and a further notification for it is being delivered
C12_Witness ==
    /\ workerPc = "start"
    /\ \E k \in Keys :
          /\ workqueue.queue = <<k>> /\ k \in workqueue.dirty
          /\ k \in pending /\ cache[k].exists

\* the last pass was given a key that does not split into kind/namespace/name
MalformedPass == PassEnded /\ Len(LastParts) # 3

\* C13 as stated: a pass on a malformed key calls AddRateLimited.
C13_MalformedRequeued == MalformedPass => Requeued

\* C13 as amended: a pass on a malformed key is logged and dropped: it makes no
\* lookup and returns nil, calls Done and not AddRateLimited, and leaves the key
\* neither queued nor waiting for a delay.
C13_MalformedDropped ==
    MalformedPass =>
        /\ last.lookups = 0 /\ last.ret = "nil"
        /\ last.addRateLimiteds = 0 /\ last.dones = 1
        /\ last.key \notin workqueue.waiting /\ last.key \notin workqueue.processing

\* the key "deployment/" of an object without metadata was dropped
C13_Witness ==
    /\ MalformedPass /\ last.key = <<"deployment", "/">>
    /\ last.dones = 1 /\ Occurrences(workqueue, last.key) = 0

\* C14: every pass calls exactly one of Forget and AddRateLimited before it
\* ends, and after a pass that did not call AddRateLimited the key's failure
\* count in the rate limiter is zero.
C14_ForgetOrRequeue ==
    PassEnded =>
        /\ last.forgets + last.addRateLimiteds = 1
        /\ last.addRateLimiteds = 0 =>
              (last.forgets = 1 /\ last.key \notin workqueue.failures)

\* run is still in one of its two waits
Waiting == runPc \in {"waitDeployment", "waitDaemonset"}

BothSynced == synced["deployment"] /\ synced["daemonset"]

\* C15: the worker exists, and so a Get or a pass happens, only when both
\* informers have synced; while stopCh is closed and an informer has not synced,
\* a step of the waiting run launches no worker and leaves the wait only by the
\* fatal exit (or the exit of the second signal).
C15_SyncBeforeWork ==
    /\ [](workerPc # "none" => (BothSynced /\ runPc \in {"running", "returned"}))
    /\ [][(stopCh /\ ~BothSynced /\ Waiting) =>
            (workerPc' = "none" /\ runPc' \in {"waitDeployment", "waitDaemonset",
                                               "fatal", "killed"})]_vars
    /\ [][(Waiting /\ runPc' = "fatal") => stopCh]_vars

\* stopCh was closed before the daemonset informer synced and run has failed
C15_Witness ==
    /\ runPc = "fatal" /\ stopCh /\ workerPc = "none"
    /\ workqueue = EmptyQueue /\ registry = {}

\* C16: once run has returned from <-stopCh the queue is shut down; a Get on the
\* empty queue that is shut down ends the worker loop; an add after ShutDown
\* changes nothing in the queue; and the graceful exit that follows the first
\* signal does not happen while a pass is in flight.
C16_GracefulStop ==
    /\ [](runPc = "returned" => (stopCh /\ workqueue.shuttingDown))
    /\ [][(workerPc = "get" /\ workerPc' # "get" /\ runPc' = runPc
             /\ workqueue.shuttingDown /\ Len(workqueue.queue) = 0) =>
            workerPc' = "stopped"]_vars
    /\ [][\A k \in Keys :
            (AddStep(k) /\ workqueue.shuttingDown) =>
                (workqueue'.queue = workqueue.queue /\ workqueue'.dirty = workqueue.dirty)]_vars
    /\ [][(runPc = "returned" /\ runPc' = "exited") => workerPc # "process"]_vars

\* the containers of the fetched workload whose image needs mirroring
NeedMirroring(obj) == {i \in 1..Len(obj.containers) : imageNotPresent(obj.containers[i].image)}

\* the least element of a non-empty set of indices
Lowest(S) == CHOOSE i \in S : \A j \in S : i <= j

\* C17: a pass on a ready workload with a container that needs mirroring calls
\* the mirror for the lowest-index such container; a pass on a ready workload
\* is a skip (nil without a mirror call) only when no container needs mirroring.
C17_LowestNeedingMirrored ==
    ReadyPass =>
        IF NeedMirroring(last.before) # {}
        THEN /\ last.mirrorCalls = 1
             /\ last.index = Lowest(NeedMirroring(last.before))
             /\ last.src = last.before.containers[last.index].image
        ELSE last.mirrorCalls = 0 /\ last.ret = "nil"

\* C18: a pass does not change the cached workloads, on any path; so after a pass
\* whose update failed the cached images are those of before the pass.
C18_CacheUntouched ==
    [][(PassStep /\ last'.updates = 1 /\ last'.updateRes # "ok") => cache' = cache]_vars

\* C19: a pass makes at most one mirror call and at most one update call, and the
\* object of the update is the fetched object with the image of the container
\* at the mirrored index replaced: the status, the number of containers, their
\* order and names, and the images of the other containers are those fetched.
C19_OnlyMirroredImageChanges ==
    PassEnded =>
        /\ last.mirrorCalls <= 1 /\ last.updates <= 1
        /\ last.pulls <= 1 /\ last.pushes <= 1
        /\ last.updates = 1 =>
              /\ last.mirrorCalls = 1 /\ last.index \in 1..Len(last.before.containers)
              /\ last.sent.desired = last.before.desired
              /\ last.sent.ready = last.before.ready
              /\ Len(last.sent.containers) = Len(last.before.containers)
              /\ \A j \in 1..Len(last.before.containers) :
                    /\ last.sent.containers[j].name = last.before.containers[j].name
                    /\ j # last.index =>
                          last.sent.containers[j].image = last.before.containers[j].image
              /\ last.sent.containers[last.index].image = last.dst

\* an update of a workload of two containers rewrote the first and left the
\* second, whose image differs from the new one, as it was
C19_Witness ==
    /\ PassEnded /\ last.updates = 1 /\ last.index = 1
    /\ Len(last.before.containers) = 2
    /\ last.sent.containers[1].image # last.before.containers[1].image
    /\ last.sent.containers[2].image = last.before.containers[2].image
    /\ last.sent.containers[2].image # last.dst

\* C20: every pass calls Done for its item once, on every path, and takes the
\* item out of the processing set; and the key of a pass that ended in a
\* retryable failure is handed out by Get again, unless stopCh is closed, however
\* many times it has failed before.
C20_RetriedAgain ==
    /\ [][PassStep => (last'.dones = 1 /\ item \notin workqueue'.processing)]_vars
    /\ \A k \in Keys :
          (PassEnded /\ last.key = k /\ last.ret = "err" /\ ~workqueue.shuttingDown)
              ~> (workerPc = "process" /\ item = k)

\* a key whose failure count is not zero is in the worker's hands again
C20_Witness ==
    /\ workerPc = "process" /\ item \in workqueue.failures
    /\ item \notin workqueue.waiting /\ ~workqueue.shuttingDown

====
